---- MODULE Spec2Model ----
(***************************************************************************)
(* User registration with e-mail activation (deSully/test-dailymotion).    *)
(*                                                                         *)
(* The model covers the registration/activation engine                     *)
(* (services/registration_service.py), the two PostgreSQL repositories it  *)
(* calls (infrastructure/db/user_repository.py and                         *)
(* activation_token_repository.py), the utilities of core/utils.py and the *)
(* HTTP handlers of api/main.py that map the engine's outcome to a         *)
(* response.                                                               *)
(*                                                                         *)
(* Requests run concurrently (FastAPI runs the synchronous handlers in a   *)
(* thread pool).  Every repository method takes a connection, runs one     *)
(* statement and commits, so a repository call is one atomic step and the  *)
(* steps of concurrent requests interleave between repository calls.       *)
(* Local computation of a request is merged into the repository call that  *)
(* follows it.                                                             *)
(***************************************************************************)
EXTENDS Integers, Sequences, FiniteSets, TLC

(***************************************************************************)
(* Bounds of the model.                                                    *)
(***************************************************************************)
MaxCalls == 3      \* requests started in one behaviour
MaxTicks == 1      \* clock advances in one behaviour
MaxFaults == 1     \* calls that fail: a repository call, or the notify callback

(***************************************************************************)
(* Program constants.                                                      *)
(***************************************************************************)
CODE_LENGTH == 4
ACTIVATION_TOKEN_TTL_SECONDS == 15 * 60

HTTP_200_OK == 200
HTTP_201_CREATED == 201
HTTP_400_BAD_REQUEST == 400
HTTP_409_CONFLICT == 409
HTTP_500_INTERNAL_SERVER_ERROR == 500
HTTP_503_SERVICE_UNAVAILABLE == 503

\* The request handlers that run concurrently.
Procs == {1, 2}
\* The e-mail addresses and passwords of the requests.
Emails == <<"a@x.com", "b@x.com">>
Passwords == {"Abcd1234"}

PENDING == "PENDING"
ACTIVE == "ACTIVE"

(***************************************************************************)
(* core/utils.py                                                           *)
(***************************************************************************)
RECURSIVE Pow10(_)
Pow10(k) == IF k = 0 THEN 1 ELSE 10 * Pow10(k - 1)

\* str(n) for n >= 0: the decimal digits, most significant first.
RECURSIVE Str(_)
Str(n) == IF n < 10 THEN <<n>> ELSE Append(Str(n \div 10), n % 10)

\* s.zfill(width): zeros on the left up to width, never truncating.
RECURSIVE Zfill(_, _)
Zfill(s, width) == IF Len(s) >= width THEN s ELSE Zfill(<<0>> \o s, width)

\* Mutant: the digits are returned without padding.
generate_activation_code_Unpadded(n, length) == Str(n)

\* generate_activation_code(length) for the value n drawn by secrets.randbelow.
generate_activation_code(n, length) == Zfill(Str(n), length)

\* The values secrets.randbelow(10**length) is taken to return in this model.
Draws == {n \in {7, 42} : n < Pow10(CODE_LENGTH)}

Codes == {generate_activation_code(n, CODE_LENGTH) : n \in Draws}

\* The salts bcrypt is taken to draw in this model.
Salts == {"s1"}

\* bcrypt (CryptContext(schemes=["bcrypt"])) uses the first 72 bytes of a
\* password and ignores the rest.
BCRYPT_MAX_BYTES == 72

bcrypt_secret(password) ==
    IF Len(password) <= BCRYPT_MAX_BYTES THEN password
    ELSE SubSeq(password, 1, BCRYPT_MAX_BYTES)

\* hash_password: bcrypt with a per-call salt, kept as an opaque digest of
\* the salt and of the bytes bcrypt uses.
hash_password(password, salt) == <<"bcrypt", salt, bcrypt_secret(password)>>

\* Mutant: every password verifies.
verify_password_Always(plain_password, hashed_password) == TRUE

\* verify_password: the password is hashed with the salt of the digest and
\* the two digests are compared.
verify_password(plain_password, hashed_password) ==
    hash_password(plain_password, hashed_password[2]) = hashed_password

(***************************************************************************)
(* Exceptions (messages are lists of fragments, so that a formatted        *)
(* message and a fixed one compare).                                       *)
(***************************************************************************)
\* kind: the exception class; msg: str(e); at: the statement that raised it.
Exc(kind, msg, at) == [kind |-> kind, msg |-> msg, at |-> at]

Ok == Exc("ok", <<>>, "return")
Running == Exc("running", <<>>, "")

\* raised by the engine (services/registration_service.py)
UserAlreadyExists ==
    Exc("UserAlreadyExists", <<"An account with this email already exists.">>, "register_user:46")
\* Mutant: an unknown e-mail is reported as such.
InvalidTokenNoUser_NotFound ==
    Exc("InvalidTokenError", <<"User not found.">>, "activate_user:73")

InvalidTokenNoUser ==
    Exc("InvalidTokenError", <<"Invalid email or activation code.">>, "activate_user:73")
UserAlreadyActive ==
    Exc("UserAlreadyActive", <<"User account is already active.">>, "activate_user:77")
InvalidTokenNoToken ==
    Exc("InvalidTokenError", <<"Invalid email or activation code.">>, "activate_user:82")
InvalidTokenExpired ==
    Exc("InvalidTokenError", <<"Activation token has expired.">>, "activate_user:92")

\* raised by the repositories: OperationalError is re-raised as ConnectionError,
\* IntegrityError as ValueError.
ConnectionError(method) == Exc("ConnectionError", <<"Database is unavailable">>, method)
ValueErrorUserExists(email) ==
    Exc("ValueError", <<"User with email ", email, " already exists">>, "create_user")

\* raised by the callback register_user is given (its text is the callback's)
NotifyError == Exc("Exception", <<"notify failed">>, "register_user:63")

VARIABLES
    users,      \* rows of table users
    tokens,     \* rows of table activation_tokens
    now,        \* the clock (seconds)
    ticks,      \* clock advances so far
    nextId,     \* the next fresh uuid
    faults,     \* repository calls and notify callbacks failed so far
    started,    \* requests started so far
    req,        \* per handler: the request it serves and its position
    outbox,     \* background tasks added by register requests
    registered, \* history: e-mails for which a register call has returned a user
    redeemed    \* history: the ids of the users returned by activate calls

vars == <<users, tokens, now, ticks, nextId, faults, started, req, outbox, registered, redeemed>>

\* updated_at of a user whose status never changed (NULL).
NoTime == -1

\* A handler with no request.
Idle == [op |-> "none", pc |-> "idle", email |-> "", secret |-> <<>>,
         user |-> {}, token |-> {}, code |-> <<>>, checked |-> NoTime,
         outcome |-> Running, response |-> [status |-> 0, detail |-> <<>>, body |-> {}],
         calls |-> <<>>, solo |-> TRUE,
         pre |-> [registered |-> FALSE, active |-> FALSE, redeemable |-> FALSE,
                  leftover |-> FALSE]]

(***************************************************************************)
(* infrastructure/db/user_repository.py                                    *)
(***************************************************************************)
\* Mutant: the lookup misses users that are still PENDING.
FindByEmail_ActiveOnly(email) == {u \in users : u.email = email /\ u.status = ACTIVE}

\* SELECT ... FROM users WHERE email = %s: the matching rows (fetchone takes one).
FindByEmail(email) == {u \in users : u.email = email}

\* Mutant: the constraint covers the id only.
ViolatesUserUnique_IdOnly(user) == \E u \in users : u.id = user.id

\* The uniqueness constraints of table users: id and email.
ViolatesUserUnique(user) == \E u \in users : u.email = user.email \/ u.id = user.id

\* INSERT INTO users ... RETURNING *
InsertUser(user) == users \cup {user}

\* Mutant: the UPDATE matches no row.
UpdateUserStatus_NoRow(user_id, status) == users

\* Mutant: the UPDATE has no WHERE clause.
UpdateUserStatus_AllRows(user_id, status) ==
    {[u EXCEPT !.status = status, !.updated_at = now] : u \in users}

\* UPDATE users SET status = %s, updated_at = NOW() WHERE id = %s
UpdateUserStatus(user_id, status) ==
    {IF u.id = user_id THEN [u EXCEPT !.status = status, !.updated_at = now] ELSE u : u \in users}

(***************************************************************************)
(* infrastructure/db/activation_token_repository.py                        *)
(***************************************************************************)
\* Mutant: the INSERT stores a second row for the user, with a shorter code.
InsertToken_Twice(token) == tokens \cup {token, [token EXCEPT !.code = Tail(token.code)]}

\* INSERT INTO activation_tokens ... RETURNING *
InsertToken(token) == tokens \cup {token}

\* Mutant: the lookup is by code alone.
FindByUserIdAndCode_ByCode(user_id, code) == {t \in tokens : t.code = code}

\* SELECT ... FROM activation_tokens WHERE user_id = %s AND code = %s
FindByUserIdAndCode(user_id, code) == {t \in tokens : t.user_id = user_id /\ t.code = code}

\* Mutant: the DELETE matches no row.
DeleteActivationToken_NoRow(user_id) == tokens

\* Mutant: the DELETE keeps the user's tokens and removes the others.
DeleteActivationToken_Others(user_id) == {t \in tokens : t.user_id = user_id}

\* DELETE FROM activation_tokens WHERE user_id = %s
DeleteActivationToken(user_id) == {t \in tokens : t.user_id # user_id}

(***************************************************************************)
(* core/models.py                                                          *)
(***************************************************************************)
\* Mutant: a user is created ACTIVE.
NewUser_BornActive(id, email, password_hash) ==
    [id |-> id, email |-> email, password_hash |-> password_hash,
     status |-> ACTIVE, created_at |-> now, updated_at |-> NoTime]

\* User(email=..., password_hash=..., status=PENDING): id is a fresh uuid4,
\* created_at is datetime.now(), updated_at is None.
NewUser(id, email, password_hash) ==
    [id |-> id, email |-> email, password_hash |-> password_hash,
     status |-> PENDING, created_at |-> now, updated_at |-> NoTime]

\* Mutant: the code is kept without its first digit.
NewToken_Truncated(user_id, code) == [user_id |-> user_id, code |-> Tail(code), created_at |-> now]

\* ActivationToken(user_id=..., code=...): created_at is datetime.now().
NewToken(user_id, code) == [user_id |-> user_id, code |-> code, created_at |-> now]

\* Mutant: no user counts as active.
is_active_Never(user) == FALSE

\* Mutant: the status is compared with the wrong value.
is_active_WrongValue(user) == user.status = "active"

is_active(user) == user.status = ACTIVE

\* Mutant: activating also resets created_at.
activate_Recreated(user) == [user EXCEPT !.status = ACTIVE, !.updated_at = now, !.created_at = now]

\* User.activate()
activate(user) == [user EXCEPT !.status = ACTIVE, !.updated_at = now]

(***************************************************************************)
(* The expiry check of activate_user (registration_service.py 84-86).      *)
(***************************************************************************)
\* Mutant: a token whose age is exactly the TTL is expired.
TokenExpired_AtTTL(token, tnow) == tnow - token.created_at >= ACTIVATION_TOKEN_TTL_SECONDS

TokenExpired(token, tnow) == tnow - token.created_at > ACTIVATION_TOKEN_TTL_SECONDS

(***************************************************************************)
(* api/main.py: the handlers' mapping of the engine's outcome.             *)
(***************************************************************************)
ResponseBody(user) == {[id |-> u.id, email |-> u.email, status |-> u.status] : u \in user}

Response(status, detail, body) == [status |-> status, detail |-> detail, body |-> body]

\* register_user (137-158)
RegisterResponse(exc, user) ==
    IF exc.kind = "ok" THEN Response(HTTP_201_CREATED, <<>>, ResponseBody(user))
    ELSE IF exc.kind = "UserAlreadyExists" THEN Response(HTTP_409_CONFLICT, exc.msg, {})
    ELSE Response(HTTP_500_INTERNAL_SERVER_ERROR, exc.msg, {})

\* Mutant: the statuses the route's documentation lists (404, 409).
ActivateResponse_AsDocumented(exc, user) ==
    IF exc.kind = "ok" THEN Response(HTTP_200_OK, <<>>, ResponseBody(user))
    ELSE IF exc.kind = "InvalidTokenError" THEN Response(404, exc.msg, {})
    ELSE IF exc.kind = "UserAlreadyActive" THEN Response(HTTP_409_CONFLICT, exc.msg, {})
    ELSE Response(HTTP_500_INTERNAL_SERVER_ERROR, exc.msg, {})

\* activate_user (217-238)
ActivateResponse(exc, user) ==
    IF exc.kind = "ok" THEN Response(HTTP_200_OK, <<>>, ResponseBody(user))
    ELSE IF exc.kind = "InvalidTokenError" THEN Response(HTTP_400_BAD_REQUEST, exc.msg, {})
    ELSE IF exc.kind = "UserAlreadyActive" THEN Response(HTTP_400_BAD_REQUEST, exc.msg, {})
    ELSE Response(HTTP_500_INTERNAL_SERVER_ERROR, exc.msg, {})

Init ==
    /\ users = {}
    /\ tokens = {}
    /\ now = 0
    /\ ticks = 0
    /\ nextId = 1
    /\ faults = 0
    /\ started = 0
    /\ req = [p \in Procs |-> Idle]
    /\ outbox = <<>>
    /\ registered = {}
    /\ redeemed = <<>>

(***************************************************************************)
(* Requests.                                                               *)
(***************************************************************************)
\* A finished engine call whose response the handler has yet to return.
Replying(p) == req[p].pc = "done"

\* Returning the response touches nothing shared, so it commutes with every
\* step of another request: it is taken as soon as the engine call has ended.
NoReply == \A q \in Procs : ~Replying(q)

\* Handlers are interchangeable: a request is taken by the first free one.
Free(p) == req[p].pc = "idle" /\ \A q \in Procs : q < p => req[q].pc # "idle"

\* History, taken when a request (email, secret) starts: whether a register
\* call for the e-mail has returned a user, whether the stored user is ACTIVE,
\* whether a PENDING user with that e-mail owns a token with code secret, and
\* whether an ACTIVE user with that e-mail still owns such a token.
PreState(email, secret) ==
    [registered |-> email \in registered,
     active |-> \E u \in users : u.email = email /\ u.status = ACTIVE,
     redeemable |-> \E u \in users : /\ u.email = email
                                      /\ u.status = PENDING
                                      /\ \E t \in tokens : t.user_id = u.id /\ t.code = secret,
     leftover |-> \E u \in users : /\ u.email = email
                                    /\ u.status = ACTIVE
                                    /\ \E t \in tokens : t.user_id = u.id /\ t.code = secret]

\* The request of handler p moves on.
Goto(p, r) == req' = [req EXCEPT ![p] = r]

\* Handler p takes the request r.  History: solo tells whether the request has
\* run with no other request for the same e-mail in progress.
Take(p, r) ==
    LET rivals == {q \in Procs \ {p} : req[q].email = r.email} IN
    req' = [q \in Procs |->
               IF q = p THEN [r EXCEPT !.solo = (rivals = {})]
               ELSE IF q \in rivals THEN [req[q] EXCEPT !.solo = FALSE]
               ELSE req[q]]

\* The repository method `method` is called by the request r.
Called(r, method) == [r EXCEPT !.calls = Append(@, method)]

\* Mutant: a call that failed in the store is made again.
Finished_Retrying(r, exc) ==
    IF exc.kind = "ConnectionError" THEN r
    ELSE [r EXCEPT !.pc = "done", !.outcome = exc,
                   !.response = IF r.op = "register" THEN RegisterResponse(exc, r.user)
                                ELSE ActivateResponse(exc, r.user)]

\* The engine call of request r ends with exc (Ok: it returns r.user) and the
\* handler builds the response.
Finished(r, exc) ==
    [r EXCEPT !.pc = "done", !.outcome = exc,
              !.response = IF r.op = "register" THEN RegisterResponse(exc, r.user)
                           ELSE ActivateResponse(exc, r.user)]

\* A repository call may fail with OperationalError, and the callback passed
\* to register_user may raise.
MayFail == faults < MaxFaults

\* The e-mail addresses are interchangeable: the first request is for the
\* first address, and the i-th address is used after i - 1 requests or more.
Usable(i) == i <= started + 1

\* No code occurs in the state: in no token, e-mail task or request.
CodeFresh ==
    /\ tokens = {}
    /\ outbox = <<>>
    /\ \A q \in Procs : req[q].op # "activate" /\ req[q].code = <<>>

\* The codes are interchangeable: while no code occurs in the state, the next
\* code to occur, generated or presented, is the first one.
UsableCode(c) ==
    CodeFresh => c = generate_activation_code(CHOOSE n \in Draws : \A m \in Draws : n <= m, CODE_LENGTH)

\* POST /register with a body that passes validate_password.
StartRegister(p, i, password) ==
    LET email == Emails[i] IN
    /\ NoReply
    /\ Usable(i)
    /\ Free(p)
    /\ started < MaxCalls
    /\ started' = started + 1
    /\ Take(p, [Idle EXCEPT !.op = "register", !.pc = "r_find", !.email = email,
                            !.secret = password, !.pre = PreState(email, password)])
    /\ UNCHANGED <<users, tokens, now, ticks, nextId, faults, outbox, registered, redeemed>>

\* POST /activate with basic credentials (email, code).
StartActivate(p, i, code) ==
    LET email == Emails[i] IN
    /\ NoReply
    /\ Usable(i)
    /\ UsableCode(code)
    /\ Free(p)
    /\ started < MaxCalls
    /\ started' = started + 1
    /\ Take(p, [Idle EXCEPT !.op = "activate", !.pc = "a_find", !.email = email,
                            !.secret = code, !.pre = PreState(email, code)])
    /\ UNCHANGED <<users, tokens, now, ticks, nextId, faults, outbox, registered, redeemed>>

(***************************************************************************)
(* RegistrationService.register_user                                       *)
(***************************************************************************)
\* Mutant: the activation e-mail is scheduled before the lookup's result is
\* looked at.
RegisterFind_NotifiesFirst(p) ==
    LET r == Called(req[p], "find_by_email") IN
    /\ NoReply
    /\ req[p].pc = "r_find"
    /\ outbox' = Append(outbox, [email |-> r.email, code |-> r.code])
    /\ IF FindByEmail(r.email) # {}
       THEN Goto(p, Finished(r, UserAlreadyExists))
       ELSE Goto(p, [r EXCEPT !.pc = "r_create"])
    /\ UNCHANGED <<users, tokens, now, ticks, nextId, faults, started, registered, redeemed>>

\* 43-46: find_by_email; an existing user raises UserAlreadyExists.
RegisterFind(p) ==
    LET r == Called(req[p], "find_by_email") IN
    /\ NoReply
    /\ req[p].pc = "r_find"
    /\ \/ /\ MayFail
          /\ faults' = faults + 1
          /\ Goto(p, Finished(r, ConnectionError("find_by_email")))
       \/ /\ FindByEmail(r.email) # {}
          /\ Goto(p, Finished(r, UserAlreadyExists))
          /\ UNCHANGED faults
       \/ /\ FindByEmail(r.email) = {}
          /\ Goto(p, [r EXCEPT !.pc = "r_create"])
          /\ UNCHANGED faults
    /\ UNCHANGED <<users, tokens, now, ticks, nextId, started, outbox, registered, redeemed>>

\* 48-54: hash_password, User(...), create_user.
RegisterCreate(p) ==
    LET r == Called(req[p], "create_user") IN
    /\ NoReply
    /\ req[p].pc = "r_create"
    /\ \E salt \in Salts :
         LET new_user == NewUser(nextId, r.email, hash_password(r.secret, salt)) IN
         \/ /\ MayFail
            /\ faults' = faults + 1
            /\ Goto(p, Finished(r, ConnectionError("create_user")))
            /\ UNCHANGED <<users, nextId>>
         \/ /\ ViolatesUserUnique(new_user)
            /\ Goto(p, Finished(r, ValueErrorUserExists(new_user.email)))
            /\ UNCHANGED <<users, nextId, faults>>
         \/ /\ ~ViolatesUserUnique(new_user)
            /\ users' = InsertUser(new_user)
            /\ nextId' = nextId + 1
            /\ Goto(p, [r EXCEPT !.pc = "r_token", !.user = {new_user}])
            /\ UNCHANGED faults
    /\ UNCHANGED <<tokens, now, ticks, started, outbox, registered, redeemed>>

\* 56-61: generate_activation_code, ActivationToken(...), create_activation_token.
RegisterToken(p) ==
    LET r == Called(req[p], "create_activation_token") IN
    /\ NoReply
    /\ req[p].pc = "r_token"
    /\ \E n \in Draws, created_user \in r.user :
         LET activation_code == generate_activation_code(n, CODE_LENGTH)
             activation_token == NewToken(created_user.id, activation_code)
         IN
         \/ /\ MayFail
            /\ faults' = faults + 1
            /\ Goto(p, Finished(r, ConnectionError("create_activation_token")))
            /\ UNCHANGED tokens
         \/ /\ UsableCode(activation_code)
            /\ tokens' = InsertToken(activation_token)
            /\ Goto(p, [r EXCEPT !.pc = "r_notify", !.code = activation_code])
            /\ UNCHANGED faults
    /\ UNCHANGED <<users, now, ticks, nextId, started, outbox, registered, redeemed>>

\* Mutant: the user is returned without the callback being invoked.
RegisterNotify_Skipped(p) ==
    /\ NoReply
    /\ req[p].pc = "r_notify"
    /\ registered' = registered \cup {req[p].email}
    /\ Goto(p, Finished(req[p], Ok))
    /\ UNCHANGED <<users, tokens, now, ticks, nextId, faults, started, outbox, redeemed>>

\* 63-66: background_tasks(email, code), which the handler makes add the e-mail
\* task; return created_user.  The call of the callback is not guarded: what
\* it raises leaves register_user.
RegisterNotify(p) ==
    LET r == req[p] IN
    /\ NoReply
    /\ r.pc = "r_notify"
    /\ \E created_user \in r.user :
         \/ /\ MayFail
            /\ faults' = faults + 1
            /\ Goto(p, Finished(r, NotifyError))
            /\ UNCHANGED <<outbox, registered>>
         \/ /\ outbox' = Append(outbox, [email |-> created_user.email, code |-> r.code])
            /\ registered' = registered \cup {r.email}
            /\ Goto(p, Finished(r, Ok))
            /\ UNCHANGED faults
    /\ UNCHANGED <<users, tokens, now, ticks, nextId, started, redeemed>>

(***************************************************************************)
(* RegistrationService.activate_user                                       *)
(***************************************************************************)
\* 69-77: find_by_email; no user raises InvalidTokenError, an active user
\* raises UserAlreadyActive.
ActivateFind(p) ==
    LET r == Called(req[p], "find_by_email") IN
    /\ NoReply
    /\ req[p].pc = "a_find"
    /\ \/ /\ MayFail
          /\ faults' = faults + 1
          /\ Goto(p, Finished(r, ConnectionError("find_by_email")))
       \/ /\ FindByEmail(r.email) = {}
          /\ Goto(p, Finished(r, InvalidTokenNoUser))
          /\ UNCHANGED faults
       \/ /\ \E user \in FindByEmail(r.email) :
               IF is_active(user)
               THEN Goto(p, Finished([r EXCEPT !.user = {user}], UserAlreadyActive))
               ELSE Goto(p, [r EXCEPT !.pc = "a_token", !.user = {user}])
          /\ UNCHANGED faults
    /\ UNCHANGED <<users, tokens, now, ticks, nextId, started, outbox, registered, redeemed>>

\* Mutant: a code that matches no token makes the call delete the user's token.
ActivateToken_ConsumesOnMiss(p) ==
    LET r == Called(req[p], "find_by_user_id_and_code") IN
    /\ NoReply
    /\ req[p].pc = "a_token"
    /\ \E user \in r.user :
         \/ /\ MayFail
            /\ faults' = faults + 1
            /\ Goto(p, Finished(r, ConnectionError("find_by_user_id_and_code")))
            /\ UNCHANGED tokens
         \/ /\ FindByUserIdAndCode(user.id, r.secret) = {}
            /\ Goto(p, Finished(r, InvalidTokenNoToken))
            /\ tokens' = DeleteActivationToken(user.id)
            /\ UNCHANGED faults
         \/ /\ \E token \in FindByUserIdAndCode(user.id, r.secret) :
                 Goto(p, [r EXCEPT !.token = {token}, !.checked = now,
                                   !.pc = IF TokenExpired(token, now)
                                          THEN "a_expired" ELSE "a_update"])
            /\ UNCHANGED <<faults, tokens>>
    /\ UNCHANGED <<users, now, ticks, nextId, started, outbox, registered, redeemed>>

\* 79-86: find_by_user_id_and_code; no token raises InvalidTokenError; then the
\* clock is read and the token's age compared with the TTL.
ActivateToken(p) ==
    LET r == Called(req[p], "find_by_user_id_and_code") IN
    /\ NoReply
    /\ req[p].pc = "a_token"
    /\ \E user \in r.user :
         \/ /\ MayFail
            /\ faults' = faults + 1
            /\ Goto(p, Finished(r, ConnectionError("find_by_user_id_and_code")))
         \/ /\ FindByUserIdAndCode(user.id, r.secret) = {}
            /\ Goto(p, Finished(r, InvalidTokenNoToken))
            /\ UNCHANGED faults
         \/ /\ \E token \in FindByUserIdAndCode(user.id, r.secret) :
                 Goto(p, [r EXCEPT !.token = {token}, !.checked = now,
                                   !.pc = IF TokenExpired(token, now)
                                          THEN "a_expired" ELSE "a_update"])
            /\ UNCHANGED faults
    /\ UNCHANGED <<users, tokens, now, ticks, nextId, started, outbox, registered, redeemed>>

\* 87-92: the expired token is deleted and InvalidTokenError raised.
ActivateExpired(p) ==
    LET r == Called(req[p], "delete_activation_token") IN
    /\ NoReply
    /\ req[p].pc = "a_expired"
    /\ \E user \in r.user :
         \/ /\ MayFail
            /\ faults' = faults + 1
            /\ Goto(p, Finished(r, ConnectionError("delete_activation_token")))
            /\ UNCHANGED tokens
         \/ /\ tokens' = DeleteActivationToken(user.id)
            /\ Goto(p, Finished(r, InvalidTokenExpired))
            /\ UNCHANGED faults
    /\ UNCHANGED <<users, now, ticks, nextId, started, outbox, registered, redeemed>>

\* 94-95: user.activate(), update_user_status(user.id, "ACTIVE").
ActivateUpdate(p) ==
    LET r == Called(req[p], "update_user_status") IN
    /\ NoReply
    /\ req[p].pc = "a_update"
    /\ \E user \in r.user :
         LET activated == [r EXCEPT !.user = {activate(user)}] IN
         \/ /\ MayFail
            /\ faults' = faults + 1
            /\ Goto(p, Finished(activated, ConnectionError("update_user_status")))
            /\ UNCHANGED users
         \/ /\ users' = UpdateUserStatus(user.id, ACTIVE)
            /\ Goto(p, [activated EXCEPT !.pc = "a_delete"])
            /\ UNCHANGED faults
    /\ UNCHANGED <<tokens, now, ticks, nextId, started, outbox, registered, redeemed>>

\* 96-98: delete_activation_token(user.id); return user.
ActivateDelete(p) ==
    LET r == Called(req[p], "delete_activation_token") IN
    /\ NoReply
    /\ req[p].pc = "a_delete"
    /\ \E user \in r.user :
         \/ /\ MayFail
            /\ faults' = faults + 1
            /\ Goto(p, Finished(r, ConnectionError("delete_activation_token")))
            /\ UNCHANGED <<tokens, redeemed>>
         \/ /\ tokens' = DeleteActivationToken(user.id)
            /\ redeemed' = Append(redeemed, user.id)
            /\ Goto(p, Finished(r, Ok))
            /\ UNCHANGED faults
    /\ UNCHANGED <<users, now, ticks, nextId, started, outbox, registered>>

(***************************************************************************)
(* api/main.py: the handler returns the response (or raises HTTPException) *)
(* and is free for the next request.  Handlers are interchangeable: the     *)
(* requests in progress are kept in the lowest handlers.                   *)
(***************************************************************************)
Respond(p) ==
    /\ Replying(p)
    /\ req' = [q \in Procs |-> IF q < p THEN req[q]
                               ELSE IF q + 1 \in Procs THEN req[q + 1] ELSE Idle]
    /\ UNCHANGED <<users, tokens, now, ticks, nextId, faults, started, outbox, registered, redeemed>>

(***************************************************************************)
(* Time passes.                                                            *)
(***************************************************************************)
\* The clock advances by the TTL (to the boundary of a token created just
\* before) or beyond it.  Only a token's age is ever compared with the clock,
\* and an advance commutes with every step that does not read the clock, so
\* time passes when a request is about to read it and the advance can change
\* what follows: before a token is stored while another one is not expired
\* yet, before the expiry check of a token that is not expired yet, and
\* between that check and the UPDATE while the token fetched is not expired
\* yet.  (created_at and updated_at of a user are written and never read.)
ClockSteps == {ACTIVATION_TOKEN_TTL_SECONDS, ACTIVATION_TOKEN_TTL_SECONDS + 1}

ClockMatters(r) ==
    \/ r.pc = "r_token" /\ \E t \in tokens : ~TokenExpired(t, now)
    \/ r.pc = "a_token" /\ \E u \in r.user : \E t \in FindByUserIdAndCode(u.id, r.secret) :
                               ~TokenExpired(t, now)
    \/ r.pc = "a_update" /\ \E t \in r.token : ~TokenExpired(t, now)

Tick(d) ==
    /\ NoReply
    /\ ticks < MaxTicks
    /\ \E q \in Procs : ClockMatters(req[q])
    /\ ticks' = ticks + 1
    /\ now' = now + d
    /\ UNCHANGED <<users, tokens, nextId, faults, started, req, outbox, registered, redeemed>>

Next ==
    \/ \E p \in Procs, i \in DOMAIN Emails, password \in Passwords : StartRegister(p, i, password)
    \/ \E p \in Procs, i \in DOMAIN Emails, code \in Codes : StartActivate(p, i, code)
    \/ \E p \in Procs : RegisterFind(p)
    \/ \E p \in Procs : RegisterCreate(p)
    \/ \E p \in Procs : RegisterToken(p)
    \/ \E p \in Procs : RegisterNotify(p)
    \/ \E p \in Procs : ActivateFind(p)
    \/ \E p \in Procs : ActivateToken(p)
    \/ \E p \in Procs : ActivateExpired(p)
    \/ \E p \in Procs : ActivateUpdate(p)
    \/ \E p \in Procs : ActivateDelete(p)
    \/ \E p \in Procs : Respond(p)
    \/ \E d \in ClockSteps : Tick(d)

Spec == Init /\ [][Next]_vars

(***************************************************************************)
(* Properties.                                                             *)
(***************************************************************************)
Done(p) == req[p].pc = "done"

\* No repository call of the (finished) request failed with OperationalError;
\* such a failure ends the call with ConnectionError whatever the request.
NoStoreFailure(r) == r.outcome.kind # "ConnectionError"

\* The activate calls that have returned the user with this id.
Redemptions(id) == Cardinality({i \in DOMAIN redeemed : redeemed[i] = id})

\* C1: once a register call for an e-mail has returned a user, a register call
\* for the same e-mail that starts later never gets past the e-mail lookup, it
\* ends with UserAlreadyExists (409 at the boundary) unless the lookup itself
\* fails in the store, and the e-mail has exactly one user row.
C1_DuplicateRegisterRejected ==
    /\ \A p \in Procs :
         LET r == req[p] IN
         (r.op = "register" /\ r.pre.registered) =>
            /\ r.pc \in {"r_find", "done"}
            /\ (r.pc = "done" /\ NoStoreFailure(r)) =>
                  /\ r.outcome = UserAlreadyExists
                  /\ r.response.status = HTTP_409_CONFLICT
    /\ \A e \in registered : Cardinality(FindByEmail(e)) = 1

C1_Witness ==
    \E p \in Procs :
        /\ Done(p)
        /\ req[p].op = "register"
        /\ req[p].pre.registered
        /\ req[p].outcome = UserAlreadyExists
        /\ Cardinality(FindByEmail(req[p].email)) = 1

\* The age the expiry check of the (activate) request r measured for token t.
AgeAtCheck(r, t) == r.checked - t.created_at

\* The stored rows of the user the request r looked up.
StoredUser(r) == {s \in users : \E u \in r.user : s.id = u.id}

\* C2: an activate call that presents the code stored for a registered,
\* PENDING user and runs with no other request for that e-mail finds the
\* token; a call that found its token at an age of at most the TTL, none of
\* whose repository calls fails, returns the user with status ACTIVE (200 at
\* the boundary) and the stored status is ACTIVE.
C2_ValidCodeActivates ==
    \A p \in Procs :
        LET r == req[p] IN
        (Done(p) /\ r.op = "activate" /\ NoStoreFailure(r)) =>
            /\ (r.pre.redeemable /\ r.solo) => r.token # {}
            /\ \A t \in r.token :
                 AgeAtCheck(r, t) <= ACTIVATION_TOKEN_TTL_SECONDS =>
                    /\ r.outcome = Ok
                    /\ r.user # {}
                    /\ \A u \in r.user : u.status = ACTIVE /\ u.email = r.email
                    /\ r.response.status = HTTP_200_OK
                    /\ r.response.body = {[id |-> u.id, email |-> r.email, status |-> ACTIVE] : u \in r.user}
                    /\ StoredUser(r) # {}
                    /\ \A s \in StoredUser(r) : s.status = ACTIVE

C2_Witness ==
    \E p \in Procs :
        /\ Done(p)
        /\ req[p].op = "activate"
        /\ req[p].pre.registered /\ req[p].pre.redeemable /\ req[p].solo
        /\ req[p].outcome = Ok
        /\ \E t \in req[p].token : AgeAtCheck(req[p], t) <= ACTIVATION_TOKEN_TTL_SECONDS
        /\ \E s \in StoredUser(req[p]) : s.status = ACTIVE

\* C3: an activate call that found the token of a PENDING user succeeds if
\* and only if the token's age at the check is at most the TTL (the boundary,
\* an age of exactly the TTL, always counts as not expired), unless a
\* repository call of it fails.
C3_SucceedsIffWithinTTL ==
    \A p \in Procs :
        LET r == req[p] IN
        (Done(p) /\ r.op = "activate" /\ NoStoreFailure(r)) =>
            /\ r.outcome = Ok => r.token # {}
            /\ \A t \in r.token :
                 r.outcome = Ok <=> AgeAtCheck(r, t) <= ACTIVATION_TOKEN_TTL_SECONDS

C3_Witness ==
    \E p \in Procs :
        /\ Done(p)
        /\ req[p].op = "activate"
        /\ req[p].outcome = Ok
        /\ \E t \in req[p].token : AgeAtCheck(req[p], t) = ACTIVATION_TOKEN_TTL_SECONDS

\* C4: an activate call that found a token older than the TTL ends with
\* InvalidTokenError unless the deletion fails in the store; then no token of
\* the user is left (a lookup by (user_id, code) finds none), the call has
\* not called update_user_status, and the stored status is still PENDING when
\* no other request for the e-mail ran meanwhile.
C4_ExpiredTokenDeleted ==
    \A p \in Procs :
        LET r == req[p] IN
        (Done(p) /\ r.op = "activate") =>
            \A t \in r.token :
                AgeAtCheck(r, t) > ACTIVATION_TOKEN_TTL_SECONDS =>
                    /\ \A i \in DOMAIN r.calls : r.calls[i] # "update_user_status"
                    /\ NoStoreFailure(r) =>
                          /\ r.outcome.kind = "InvalidTokenError"
                          /\ r.response.status = HTTP_400_BAD_REQUEST
                          /\ \A u \in r.user :
                                /\ FindByUserIdAndCode(u.id, r.secret) = {}
                                /\ \A k \in tokens : k.user_id # u.id
                          /\ r.solo => \A s \in StoredUser(r) : s.status = PENDING

C4_Witness ==
    \E p \in Procs :
        /\ Done(p)
        /\ req[p].op = "activate"
        /\ req[p].solo
        /\ req[p].outcome = InvalidTokenExpired
        /\ \E t \in req[p].token : AgeAtCheck(req[p], t) > ACTIVATION_TOKEN_TTL_SECONDS
        /\ \E s \in StoredUser(req[p]) : s.status = PENDING
        /\ tokens = {}

\* C5: an activate call that starts when the stored status of the user with
\* its e-mail is ACTIVE never gets past the e-mail lookup and never ends with
\* InvalidTokenError: it ends with UserAlreadyActive (400 at the boundary)
\* whatever the code, unless the lookup itself fails in the store.
C5_ActiveUserAlreadyActive ==
    \A p \in Procs :
        LET r == req[p] IN
        (r.op = "activate" /\ r.pre.active) =>
            /\ r.pc \in {"a_find", "done"}
            /\ r.outcome.kind # "InvalidTokenError"
            /\ (Done(p) /\ NoStoreFailure(r)) =>
                  /\ r.outcome = UserAlreadyActive
                  /\ r.response.status = HTTP_400_BAD_REQUEST

\* The code once sent for the e-mail is presented again after the activation.
C5_Witness ==
    \E p \in Procs :
        /\ Done(p)
        /\ req[p].op = "activate"
        /\ req[p].pre.active
        /\ req[p].outcome = UserAlreadyActive
        /\ \E i \in DOMAIN outbox :
              outbox[i].email = req[p].email /\ outbox[i].code = req[p].secret

\* The token an activate request holds is the one its lookup returned for the
\* user it found by e-mail and the code it presents.
C6_OwnToken ==
    \A p \in Procs :
        LET r == req[p] IN
        r.op = "activate" =>
            \A u \in r.user, t \in r.token :
                u.email = r.email /\ t.user_id = u.id /\ t.code = r.secret

\* A step that makes a user ACTIVE, or deletes tokens, or ends a token lookup
\* with a token, is taken by an activate request for that user's e-mail.
C6_Step ==
    /\ \A p \in Procs :
         (req[p].pc = "a_token" /\ req'[p].pc \in {"a_update", "a_expired"}) =>
            \E t \in tokens, u \in req[p].user :
                /\ req'[p].token = {t}
                /\ t.user_id = u.id
                /\ t.code = req[p].secret
    /\ \A s \in users, s2 \in users' :
         (s2.id = s.id /\ s.status # ACTIVE /\ s2.status = ACTIVE) =>
            \E p \in Procs :
                /\ req[p].op = "activate"
                /\ req[p].pc = "a_update"
                /\ req[p].email = s.email
                /\ \E t \in req[p].token : t.user_id = s.id /\ t.code = req[p].secret
    /\ \A t \in tokens \ tokens' :
         \E p \in Procs, u \in users :
            /\ req[p].op = "activate"
            /\ req[p].pc \in {"a_expired", "a_delete"}
            /\ req[p].email = u.email
            /\ t.user_id = u.id

\* C6: activate(email, code) makes a user ACTIVE only when its lookup returned
\* a stored token with that user's id and that code, and it deletes tokens of
\* that user only: a token of another user neither lets the call succeed nor
\* is deleted by it, whatever its code.
C6_CrossUserIsolation == []C6_OwnToken /\ [][C6_Step]_vars

\* A user has been activated with a code that another user's token carries
\* too, and that token is still stored.
C6_Witness ==
    \E p \in Procs :
        /\ Done(p)
        /\ req[p].op = "activate"
        /\ req[p].outcome = Ok
        /\ \E t \in tokens : t.code = req[p].secret /\ \A u \in req[p].user : t.user_id # u.id

\* C7: an activate call for an e-mail with no user row, and an activate call
\* for a PENDING user with a code no token of the user carries, end with
\* the same exception class and message and the same response.
C7_UnknownEmailLikeWrongCode ==
    \A p \in Procs :
        LET r == req[p] IN
        (Done(p) /\ r.op = "activate" /\ NoStoreFailure(r)) =>
            /\ r.user = {} =>
                  /\ r.outcome.kind = InvalidTokenNoToken.kind
                  /\ r.outcome.msg = InvalidTokenNoToken.msg
                  /\ r.response = ActivateResponse(InvalidTokenNoToken, {})
            /\ (r.user # {} /\ r.token = {} /\ \A u \in r.user : u.status = PENDING) =>
                  /\ r.outcome.kind = InvalidTokenNoUser.kind
                  /\ r.outcome.msg = InvalidTokenNoUser.msg
                  /\ r.response = ActivateResponse(InvalidTokenNoUser, {})

\* An unknown e-mail is presented while a registered user is PENDING.
C7_Witness ==
    \E p \in Procs :
        /\ Done(p)
        /\ req[p].op = "activate"
        /\ req[p].user = {}
        /\ req[p].outcome.kind = "InvalidTokenError"
        /\ req[p].response.status = HTTP_400_BAD_REQUEST
        /\ \E u \in users : u.status = PENDING /\ u.email # req[p].email

\* C8: once an activate call has returned a user, no token with that user's
\* id is stored.
C8_NoTokenAfterActivation ==
    /\ \A i \in DOMAIN redeemed : \A t \in tokens : t.user_id # redeemed[i]
    /\ \A p \in Procs :
         (Done(p) /\ req[p].op = "activate" /\ req[p].outcome = Ok) =>
            \A u \in req[p].user : \A t \in tokens : t.user_id # u.id

C8_Witness ==
    \E p \in Procs :
        /\ Done(p)
        /\ req[p].op = "activate"
        /\ req[p].outcome = Ok
        /\ req[p].token # {}
        /\ \A t \in req[p].token : t \notin tokens
        /\ \A u \in req[p].user : Redemptions(u.id) = 1

\* C9: a token is redeemed at most once: no user is returned by two activate
\* calls.
C9_RedeemedAtMostOnce ==
    \A u \in users : Redemptions(u.id) <= 1

\* C10: a register call whose create_user is rejected by the uniqueness
\* constraint of users.email ends with UserAlreadyExists, a 409 response.
C10_RaceIsAlreadyExists ==
    \A p \in Procs :
        LET r == req[p] IN
        ( /\ Done(p)
          /\ r.op = "register"
          /\ r.calls = <<"find_by_email", "create_user">>
          /\ NoStoreFailure(r) ) =>
            /\ r.outcome.kind = "UserAlreadyExists"
            /\ r.response.status = HTTP_409_CONFLICT

\* C11: in every reachable state the table users holds at most one row per
\* e-mail, however the register calls interleave.
C11_OneRowPerEmail ==
    \A u \in users, v \in users : u.email = v.email => u = v

\* Two register calls for one e-mail both passed the lookup; the second
\* INSERT was rejected and one row is stored.
C11_Witness ==
    \E p \in Procs :
        /\ Done(p)
        /\ req[p].op = "register"
        /\ req[p].outcome = ValueErrorUserExists(req[p].email)
        /\ Cardinality({u \in users : u.email = req[p].email}) = 1

\* A step keeps every user row, stores a new row with status PENDING, and
\* changes the status of a stored row from PENDING to ACTIVE only.
C12_Step ==
    /\ \A u \in users : \E v \in users' : v.id = u.id
    /\ \A v \in users' :
         IF \E u \in users : u.id = v.id
         THEN \A u \in users :
                 u.id = v.id => \/ v.status = u.status
                                \/ u.status = PENDING /\ v.status = ACTIVE
         ELSE v.status = PENDING

\* C12: a user's stored status is PENDING when the row is created and changes
\* only from PENDING to ACTIVE; no register or activate call takes an ACTIVE
\* user back to PENDING.
C12_StatusMonotone == [][C12_Step]_vars

\* A call for the e-mail of an ACTIVE user has run to its end and the user is
\* still ACTIVE.
C12_Witness ==
    \E p \in Procs :
        /\ Done(p)
        /\ req[p].pre.active
        /\ req[p].calls # <<>>
        /\ \E u \in users : u.email = req[p].email /\ u.status = ACTIVE /\ u.updated_at # NoTime

\* In an activate call the token is fetched and its age checked before the
\* status update, and the step that completes the update of the user's status
\* is taken while the age of the fetched token is at most the TTL.
C13_Step ==
    \A p \in Procs :
        /\ (NoReply /\ req'[p].pc = "a_update" /\ req[p].pc # "a_update") =>
              /\ req[p].pc = "a_token"
              /\ \E t \in req'[p].token : ~TokenExpired(t, req'[p].checked)
        /\ (req[p].pc = "a_update" /\ req'[p].pc = "a_delete") =>
              /\ req[p].token # {}
              /\ \A t \in req[p].token : now - t.created_at <= ACTIVATION_TOKEN_TTL_SECONDS

\* C13: in every activate call the token fetch precedes the expiry check and
\* the expiry check precedes the status update, and no call completes the
\* update for a token whose age exceeds the TTL, however calls and clock
\* advances interleave.
C13_NoUpdatePastTTL == [][C13_Step]_vars

\* C14: when update_user_status succeeded and delete_activation_token then
\* failed, the user is ACTIVE and still owns the token; an activate call that
\* starts then and presents the leftover code never fetches the token, never
\* calls update_user_status and never succeeds: it ends with
\* UserAlreadyActive (400), or with the store's ConnectionError.
C14_LeftoverNeverRedeemed ==
    \A p \in Procs :
        LET r == req[p] IN
        (r.op = "activate" /\ r.pre.leftover) =>
            /\ r.pc \in {"a_find", "done"}
            /\ r.token = {}
            /\ r.outcome # Ok
            /\ \A i \in DOMAIN r.calls : r.calls[i] = "find_by_email"
            /\ Done(p) =>
                  /\ r.outcome.kind \in {"UserAlreadyActive", "ConnectionError"}
                  /\ r.response.status # HTTP_200_OK
                  /\ NoStoreFailure(r) => r.response.status = HTTP_400_BAD_REQUEST

\* The deletion of an activate call failed after its update; the leftover
\* code was presented again and refused, and the token is still stored.
C14_Witness ==
    \E p \in Procs :
        /\ Done(p)
        /\ req[p].op = "activate"
        /\ req[p].pre.leftover
        /\ req[p].outcome = UserAlreadyActive
        /\ faults > 0
        /\ redeemed = <<>>
        /\ \A q \in Procs \ {p} : req[q].pc = "idle"
        /\ \E u \in req[p].user, t \in tokens : t.user_id = u.id /\ t.code = req[p].secret

\* The step in which a register call ends with UserAlreadyExists is its e-mail
\* lookup, the only repository call it made, and the step leaves the rows of
\* users and activation_tokens and the scheduled e-mails as they were.
C15_Step ==
    \A p \in Procs :
        (req[p].pc # "done" /\ req'[p].pc = "done" /\ req'[p].outcome = UserAlreadyExists) =>
            /\ req[p].pc = "r_find"
            /\ FindByEmail(req[p].email) # {}
            /\ users' = users
            /\ tokens' = tokens
            /\ outbox' = outbox
            /\ nextId' = nextId

\* A register call that ended with UserAlreadyExists called find_by_email and
\* nothing else, and created neither a user nor a code.
C15_OnlyLookup ==
    \A p \in Procs :
        (Done(p) /\ req[p].op = "register" /\ req[p].outcome = UserAlreadyExists) =>
            /\ req[p].calls = <<"find_by_email">>
            /\ req[p].user = {}
            /\ req[p].code = <<>>

\* C15: a register call that fails with UserAlreadyExists because the e-mail
\* lookup found a user has no side effects: it creates or changes no user row,
\* creates no token and does not invoke the notify callback.
C15_AlreadyExistsNoEffect == []C15_OnlyLookup /\ [][C15_Step]_vars

\* The second register call for an e-mail was refused; the first call's user,
\* token and e-mail task are all there is.
C15_Witness ==
    \E p \in Procs :
        /\ Done(p)
        /\ req[p].op = "register"
        /\ req[p].outcome = UserAlreadyExists
        /\ req[p].calls = <<"find_by_email">>
        /\ Cardinality(users) = 1
        /\ Cardinality(tokens) = 1
        /\ Len(outbox) = 1

\* C16: when a register call that ran with no other request for its e-mail
\* returns the user u (status PENDING), the lookup by (u.id, c) with the code c
\* generated in the call finds a token, and every token it finds has user_id
\* u.id and the code c, all CODE_LENGTH digits of it.
C16_FreshCodeFound ==
    \A p \in Procs :
        LET r == req[p] IN
        (Done(p) /\ r.op = "register" /\ r.outcome = Ok /\ r.solo) =>
            /\ r.user # {}
            /\ Len(r.code) = CODE_LENGTH
            /\ \A u \in r.user :
                 /\ u.status = PENDING
                 /\ FindByUserIdAndCode(u.id, r.code) # {}
                 /\ \A t \in FindByUserIdAndCode(u.id, r.code) :
                       t.user_id = u.id /\ t.code = r.code

\* The code of the returned user starts with zeros.
C16_Witness ==
    \E p \in Procs :
        /\ Done(p)
        /\ req[p].op = "register"
        /\ req[p].outcome = Ok
        /\ req[p].solo
        /\ req[p].code = <<0, 0, 0, 7>>
        /\ \E u \in req[p].user : FindByUserIdAndCode(u.id, <<0, 0, 0, 7>>) # {}

\* The e-mail tasks added for an address.
Notified(email) == {i \in DOMAIN outbox : outbox[i].email = email}

\* The callback is invoked in the step in which a register call returns its
\* user and in no other step: once, with the e-mail of the created user and
\* the code the call generated, when the call has made its three repository
\* calls, the last two being the INSERTs of the user and of its token.
C17_Step ==
    /\ outbox' # outbox =>
          \E p \in Procs :
              /\ req[p].op = "register"
              /\ req[p].pc = "r_notify"
              /\ req'[p].outcome = Ok
              /\ req[p].calls = <<"find_by_email", "create_user", "create_activation_token">>
              /\ \E u \in req[p].user :
                    outbox' = Append(outbox, [email |-> u.email, code |-> req[p].code])
    /\ \A p \in Procs :
          (req[p].op = "register" /\ req[p].pc # "done" /\ req'[p].outcome = Ok) =>
              Len(outbox') = Len(outbox) + 1
    /\ \A t \in tokens' \ tokens :
          \E p \in Procs :
              /\ req[p].pc = "r_token"
              /\ req'[p].code = t.code
              /\ \E u \in req[p].user : u \in users /\ t.user_id = u.id

\* A register call that has returned a user has one e-mail task, with the
\* user's e-mail and the call's code; the tasks are as many as the e-mails
\* registered, so a call that failed has added none.
C17_OncePerSuccess ==
    /\ Len(outbox) = Cardinality(registered)
    /\ \A e \in registered : Cardinality(Notified(e)) = 1
    /\ \A p \in Procs :
          (Done(p) /\ req[p].op = "register" /\ req[p].outcome = Ok) =>
              /\ req[p].email \in registered
              /\ \A u \in req[p].user :
                    \A i \in Notified(u.email) : outbox[i].code = req[p].code

C18_NotifierFailureNotPropagated ==
    \A p \in Procs :
        LET r == req[p] IN
        ( /\ Done(p)
          /\ r.op = "register"
          /\ r.calls = <<"find_by_email", "create_user", "create_activation_token">>
          /\ NoStoreFailure(r) ) =>
            /\ r.outcome = Ok
            /\ r.response.status = HTTP_201_CREATED
            /\ \A u \in r.user : u.status = PENDING

\* The e-mail of the user with this id, before or after the step.
OwnerEmail(id) == {u.email : u \in {v \in users \cup users' : v.id = id}}

\* A step that adds, changes or removes a user row or a token is a step of a
\* request for the e-mail of that user.
C19_Step ==
    /\ \A u \in (users \ users') \cup (users' \ users) :
          \E p \in Procs : req'[p] # req[p] /\ req[p].email = u.email
    /\ \A t \in (tokens \ tokens') \cup (tokens' \ tokens) :
          \E p \in Procs : req'[p] # req[p] /\ req[p].email \in OwnerEmail(t.user_id)

\* A handler keeps nothing of a request it has answered.
C19_Stateless == \A p \in Procs : req[p].pc = "idle" => req[p] = Idle

\* C19: a register or activate call for one user never changes the stored row
\* or the tokens of another user, however calls on distinct e-mails
\* interleave, and nothing of a call is kept once it is answered.
C19_OtherUsersUntouched == []C19_Stateless /\ [][C19_Step]_vars

\* A user was activated while a request for another e-mail was in progress;
\* the other user is PENDING, never updated, and owns its token.
C19_Witness ==
    \E p \in Procs, q \in Procs :
        /\ Done(p)
        /\ req[p].op = "activate"
        /\ req[p].outcome = Ok
        /\ req[q].pc \notin {"idle", "done"}
        /\ req[q].email # req[p].email
        /\ \E b \in users, t \in tokens :
              /\ b.email = req[q].email
              /\ b.status = PENDING
              /\ b.updated_at = NoTime
              /\ t.user_id = b.id

\* No method occurs twice among the repository calls of a request.
NoRepeat(calls) == \A i \in DOMAIN calls, j \in DOMAIN calls : calls[i] = calls[j] => i = j

\* A request whose repository call failed has ended with the ConnectionError
\* of that call, the last call it made, and no request repeats a call.
C20_FailsAtOnce ==
    \A p \in Procs :
        LET r == req[p] IN
        /\ NoRepeat(r.calls)
        /\ r.outcome.kind = "ConnectionError" =>
              /\ Done(p)
              /\ r.calls # <<>>
              /\ r.outcome = ConnectionError(r.calls[Len(r.calls)])
              /\ r.response.detail = <<"Database is unavailable">>

\* The step in which a repository call fails ends the engine call and changes
\* no row; the next step of the handler is its reply.
C20_Step ==
    \A p \in Procs :
        /\ (faults' # faults /\ req'[p] # req[p] /\ req'[p].outcome # NotifyError) =>
              /\ req'[p].pc = "done"
              /\ req'[p].outcome.kind = "ConnectionError"
              /\ Len(req'[p].calls) = Len(req[p].calls) + 1
              /\ users' = users
              /\ tokens' = tokens
              /\ outbox' = outbox
        /\ Done(p) =>
              \A q \in Procs : req'[q] = Idle \/ \E o \in Procs \ {p} : req'[q] = req[o]

\* C20: when a store call fails with a connection failure during register or
\* activate, the engine call fails at once with that error: it takes no later
\* step of the operation and makes no store call twice.
C20_StoreFailureEndsCall == []C20_FailsAtOnce /\ [][C20_Step]_vars

\* update_user_status failed: the call ended there, the user is PENDING and
\* the token is kept.
C20_Witness ==
    \E p \in Procs :
        /\ Done(p)
        /\ req[p].outcome = ConnectionError("update_user_status")
        /\ req[p].calls = <<"find_by_email", "find_by_user_id_and_code", "update_user_status">>
        /\ \A s \in StoredUser(req[p]) : s.status = PENDING
        /\ req[p].token # {}
        /\ req[p].token \subseteq tokens

\* C21: a register or activate call that ended with the store's
\* ConnectionError is answered with the service-unavailable status, not with
\* the internal-error status of unexpected failures.
C21_StoreFailureIsUnavailable ==
    \A p \in Procs :
        (Done(p) /\ req[p].outcome.kind = "ConnectionError") =>
            /\ req[p].response.status = HTTP_503_SERVICE_UNAVAILABLE
            /\ req[p].response.status # HTTP_500_INTERNAL_SERVER_ERROR

\* The status the boundary is to give an engine outcome of a register call.
C22_RegisterStatus(kind) ==
    IF kind = "ok" THEN HTTP_201_CREATED
    ELSE IF kind = "UserAlreadyExists" THEN HTTP_409_CONFLICT
    ELSE HTTP_500_INTERNAL_SERVER_ERROR

\* The status the boundary is to give an engine outcome of an activate call.
C22_ActivateStatus(kind) ==
    IF kind = "ok" THEN HTTP_200_OK
    ELSE IF kind \in {"InvalidTokenError", "UserAlreadyActive"} THEN HTTP_400_BAD_REQUEST
    ELSE HTTP_500_INTERNAL_SERVER_ERROR

C23_ExpiredLikeWrongCode ==
    \A p \in Procs :
        LET r == req[p] IN
        ( /\ Done(p)
          /\ r.op = "activate"
          /\ NoStoreFailure(r)
          /\ \E t \in r.token : TokenExpired(t, r.checked) ) =>
            /\ r.outcome.kind = InvalidTokenNoToken.kind
            /\ r.outcome.msg = InvalidTokenNoToken.msg
            /\ r.response = ActivateResponse(InvalidTokenNoToken, {})

\* The messages a failure response may carry.
C24_Documented ==
    {UserAlreadyExists.msg, InvalidTokenNoUser.msg, UserAlreadyActive.msg,
     <<"Internal server error">>}

\* C24: every failure response carries one of a fixed set of messages, and on
\* the internal-error path the response does not carry the text of the
\* exception that ended the call.
C24_NoInternalText ==
    \A p \in Procs :
        LET r == req[p] IN
        (Done(p) /\ r.outcome # Ok) =>
            /\ r.response.detail \in C24_Documented
            /\ r.response.status = HTTP_500_INTERNAL_SERVER_ERROR =>
                  r.response.detail # r.outcome.msg

(***************************************************************************)
(* api/main.py: RegisterRequest.validate_password.  A password is a        *)
(* sequence of characters.                                                 *)
(***************************************************************************)
MIN_PASSWORD_LENGTH == 8
HTTP_422_UNPROCESSABLE_ENTITY == 422

UpperCase == {"A", "B", "C", "D", "E", "F", "G", "H", "I", "J", "K", "L", "M",
              "N", "O", "P", "Q", "R", "S", "T", "U", "V", "W", "X", "Y", "Z"}
LowerCase == {"a", "b", "c", "d", "e", "f", "g", "h", "i", "j", "k", "l", "m",
              "n", "o", "p", "q", "r", "s", "t", "u", "v", "w", "x", "y", "z"}
Digits == {"0", "1", "2", "3", "4", "5", "6", "7", "8", "9"}

isupper(c) == c \in UpperCase
islower(c) == c \in LowerCase
isdigit(c) == c \in Digits

ValidationError(msg) == Exc("ValidationError", <<msg>>, "validate_password")

\* Mutant: seven characters are enough.
validate_password_Min7(v) ==
    IF Len(v) < 7
    THEN ValidationError("Password must be at least 8 characters long")
    ELSE IF ~\E i \in DOMAIN v : isupper(v[i])
    THEN ValidationError("Password must contain at least one uppercase letter")
    ELSE IF ~\E i \in DOMAIN v : islower(v[i])
    THEN ValidationError("Password must contain at least one lowercase letter")
    ELSE IF ~\E i \in DOMAIN v : isdigit(v[i])
    THEN ValidationError("Password must contain at least one digit")
    ELSE Ok

\* validate_password: the checks in the order of the code; Ok: v is returned.
validate_password(v) ==
    IF Len(v) < MIN_PASSWORD_LENGTH
    THEN ValidationError("Password must be at least 8 characters long")
    ELSE IF ~\E i \in DOMAIN v : isupper(v[i])
    THEN ValidationError("Password must contain at least one uppercase letter")
    ELSE IF ~\E i \in DOMAIN v : islower(v[i])
    THEN ValidationError("Password must contain at least one lowercase letter")
    ELSE IF ~\E i \in DOMAIN v : isdigit(v[i])
    THEN ValidationError("Password must contain at least one digit")
    ELSE Ok

\* k times the character c.
Repeat(c, k) == [i \in 1..k |-> c]

\* The passwords of the requests to POST /register: seven or eight characters
\* (one less than the minimum, and the minimum), of which at most one is an
\* uppercase letter, at most one a lowercase letter, at most one a digit, the
\* others being neither letters nor digits.
PasswordLengths == {MIN_PASSWORD_LENGTH - 1, MIN_PASSWORD_LENGTH}
PasswordBodies ==
    {Repeat("A", a) \o Repeat("b", b) \o Repeat("1", d) \o Repeat("!", n - a - b - d) :
        a \in {0, 1}, b \in {0, 1}, d \in {0, 1}, n \in PasswordLengths}

\* POST /register: the body is validated (RegisterRequest); a password that
\* fails is answered 422 by the framework and register_user is not called.
PostRegister(p, i, body) ==
    LET email == Emails[i]
        verdict == validate_password(body)
    IN
    IF verdict = Ok
    THEN StartRegister(p, i, body)
    ELSE /\ NoReply
         /\ Usable(i)
         /\ Free(p)
         /\ started < MaxCalls
         /\ started' = started + 1
         /\ Take(p, [Idle EXCEPT !.op = "register", !.pc = "done", !.email = email,
                                 !.secret = body, !.outcome = verdict,
                                 !.response = Response(HTTP_422_UNPROCESSABLE_ENTITY,
                                                       verdict.msg, {})])
         /\ UNCHANGED <<users, tokens, now, ticks, nextId, faults, outbox, registered, redeemed>>

NextValidate ==
    \/ \E p \in Procs, i \in DOMAIN Emails, body \in PasswordBodies : PostRegister(p, i, body)
    \/ \E p \in Procs : RegisterFind(p)
    \/ \E p \in Procs : RegisterCreate(p)
    \/ \E p \in Procs : RegisterToken(p)
    \/ \E p \in Procs : RegisterNotify(p)
    \/ \E p \in Procs : Respond(p)

\* The register requests alone, with passwords of every kind.
SpecValidate == Init /\ [][NextValidate]_vars

\* The password policy: at least MIN_PASSWORD_LENGTH characters, of which at
\* least one uppercase letter, one lowercase letter and one digit.
C25_MeetsPolicy(v) ==
    /\ Len(v) >= MIN_PASSWORD_LENGTH
    /\ Cardinality({i \in DOMAIN v : v[i] \in UpperCase}) >= 1
    /\ Cardinality({i \in DOMAIN v : v[i] \in LowerCase}) >= 1
    /\ Cardinality({i \in DOMAIN v : v[i] \in Digits}) >= 1

\* A register request is rejected by the validation exactly when its password
\* misses the policy; a rejected request is answered 422 and has called no
\* repository method, and every stored user has a password that meets the
\* policy.
C25_RejectedIffViolating ==
    /\ \A p \in Procs :
          LET r == req[p] IN
          r.op = "register" =>
              /\ r.outcome.kind = "ValidationError" <=> ~C25_MeetsPolicy(r.secret)
              /\ r.outcome.kind = "ValidationError" =>
                    /\ r.pc = "done"
                    /\ r.calls = <<>>
                    /\ r.user = {}
                    /\ r.code = <<>>
                    /\ r.response.status = HTTP_422_UNPROCESSABLE_ENTITY
    /\ \A u \in users : C25_MeetsPolicy(u.password_hash[3])

\* The step that rejects a request changes no row and schedules no e-mail.
C25_Step ==
    \A p \in Procs :
        (req[p].pc = "idle" /\ req'[p].outcome.kind = "ValidationError") =>
            /\ users' = users
            /\ tokens' = tokens
            /\ outbox' = outbox
            /\ nextId' = nextId

\* C25: a register request passes validation if and only if its password has
\* at least 8 characters, an uppercase letter, a lowercase letter and a digit;
\* a violating request is rejected with a validation error before the engine
\* is invoked, so no user and no token is created for it.
C25_PasswordPolicy == []C25_RejectedIffViolating /\ [][C25_Step]_vars

\* A password of eight characters with no digit was rejected, after a
\* password of eight characters that meets the policy was accepted.
C25_Witness ==
    \E p \in Procs :
        /\ Done(p)
        /\ req[p].op = "register"
        /\ req[p].outcome.kind = "ValidationError"
        /\ Len(req[p].secret) = MIN_PASSWORD_LENGTH
        /\ \E i \in DOMAIN req[p].secret : req[p].secret[i] \in UpperCase
        /\ \E i \in DOMAIN req[p].secret : req[p].secret[i] \in LowerCase
        /\ \E u \in users : Len(u.password_hash[3]) = MIN_PASSWORD_LENGTH

\* The expiry the descriptions of the two routes announce ("Activation code
\* expires after 60 seconds").
DOCUMENTED_TTL_SECONDS == 60

\* C26: the activation code expires after 60 seconds: an activate call that
\* presents the correct code and measures a token age above 60 seconds does
\* not succeed.
C26_ExpiresAfterSixtySeconds ==
    \A p \in Procs :
        LET r == req[p] IN
        ( /\ Done(p)
          /\ r.op = "activate"
          /\ \E t \in r.token : AgeAtCheck(r, t) > DOCUMENTED_TTL_SECONDS ) =>
            r.outcome # Ok

\* The stored tokens of the user with this id.
TokensOf(id) == {t \in tokens : t.user_id = id}

\* No user owns two tokens, and a register call that got past
\* create_activation_token has called it once.
C27_AtMostOneToken ==
    /\ \A u \in users : Cardinality(TokensOf(u.id)) <= 1
    /\ \A t \in tokens : \E u \in users : u.id = t.user_id
    /\ \A p \in Procs :
          LET r == req[p] IN
          (r.op = "register" /\ (r.pc = "r_notify" \/ r.outcome = Ok)) =>
              Cardinality({i \in DOMAIN r.calls : r.calls[i] = "create_activation_token"}) = 1

\* A step that stores a token is the create_activation_token call of a
\* register call, and it stores one token, for the user that call created,
\* who had none.
C27_Step ==
    (tokens' \ tokens # {}) =>
        \E p \in Procs :
            /\ req[p].op = "register"
            /\ req[p].pc = "r_token"
            /\ req'[p].pc = "r_notify"
            /\ \E t \in tokens' : \E u \in req[p].user :
                  /\ tokens' = tokens \cup {t}
                  /\ t.user_id = u.id
                  /\ TokensOf(u.id) = {}

\* C27: in every reachable state each user owns at most one activation token:
\* register creates exactly one token for the user it creates, and no other
\* operation creates tokens.
C27_OneTokenPerUser == []C27_AtMostOneToken /\ [][C27_Step]_vars

\* Two users own one token each, and an activate call for one of them has
\* finished and left the token where it was.
C27_Witness ==
    /\ Cardinality(users) = 2
    /\ \A u \in users : Cardinality(TokensOf(u.id)) = 1
    /\ \E p \in Procs :
          /\ Done(p)
          /\ req[p].op = "activate"
          /\ req[p].user # {}

(***************************************************************************)
(* The transaction of a repository method that writes (create_user,        *)
(* update_user_status, create_activation_token, delete_activation_token):  *)
(*     try: cursor.execute(statement); conn.commit()                       *)
(*     except ...: conn.rollback(); raise ...                              *)
(* SpecRepo calls the methods directly, as                                 *)
(* tests/infrastructure/db/test_db_error_handling.py does, the database    *)
(* answering each statement as it may.                                     *)
(***************************************************************************)
\* What the database makes of a statement: it runs and commits, it violates
\* a constraint (psycopg2.IntegrityError at execute), or the connection is
\* lost (psycopg2.OperationalError) at execute or at commit.
DbAnswers == {"ok", "IntegrityError", "OperationalError at execute", "OperationalError at commit"}

\* The connection of one call: the rows the table holds, the rows as the open
\* transaction sees them, the exception class raised so far, and the calls
\* made on the connection.
Connection(rows) == [stored |-> rows, work |-> rows, raised |-> "none", log |-> <<>>]

\* cursor.execute(statement), rows being the table after the statement.
execute(conn, rows, answer) ==
    IF answer = "IntegrityError"
    THEN [conn EXCEPT !.raised = "IntegrityError", !.log = Append(@, "execute")]
    ELSE IF answer = "OperationalError at execute"
    THEN [conn EXCEPT !.raised = "OperationalError", !.log = Append(@, "execute")]
    ELSE [conn EXCEPT !.work = rows, !.log = Append(@, "execute")]

\* conn.commit()
commit(conn, answer) ==
    IF answer = "OperationalError at commit"
    THEN [conn EXCEPT !.raised = "OperationalError", !.log = Append(@, "commit")]
    ELSE [conn EXCEPT !.stored = conn.work, !.log = Append(@, "commit")]

\* Mutant: the except clauses raise without rolling back.
rollback_Skipped(conn) == conn

\* conn.rollback()
rollback(conn) == [conn EXCEPT !.work = conn.stored, !.log = Append(@, "rollback")]

\* The try statement of the four methods: every except clause rolls back.
Transaction(rows, after, answer) ==
    LET executed == execute(Connection(rows), after, answer)
        committed == IF executed.raised = "none" THEN commit(executed, answer) ELSE executed
    IN IF committed.raised = "none" THEN committed ELSE rollback(committed)

ValueErrorTokenExists ==
    Exc("ValueError", <<"Activation token", " already exists">>, "create_activation_token")

\* What the method raises: the except clauses in their order.  Only the two
\* create methods have a clause for IntegrityError; elsewhere it is re-raised
\* as it is by "except Exception: raise".
Raised(method, conn, email) ==
    IF conn.raised = "none" THEN Ok
    ELSE IF conn.raised = "IntegrityError" /\ method = "create_user" THEN ValueErrorUserExists(email)
    ELSE IF conn.raised = "IntegrityError" /\ method = "create_activation_token" THEN ValueErrorTokenExists
    ELSE IF conn.raised = "OperationalError" THEN ConnectionError(method)
    ELSE Exc(conn.raised, <<"database error">>, method)

\* The thread that calls the repository.
Caller == CHOOSE p \in Procs : \A q \in Procs : p <= q

\* The caller's record of a repository call: the method, the e-mail of the
\* row (if any), what the database answered, the calls made on the
\* connection, and what the method raised.
RepoCalled(method, email, answer, conn) ==
    /\ started < MaxCalls
    /\ started' = started + 1
    /\ req' = [req EXCEPT ![Caller] =
                  [Idle EXCEPT !.op = method, !.pc = "done", !.email = email,
                               !.secret = answer, !.calls = conn.log,
                               !.outcome = Raised(method, conn, email)]]
    /\ UNCHANGED <<now, ticks, faults, outbox, registered, redeemed>>

\* The ids a call may name: those of the stored users and one of no user.
UserIds == {u.id : u \in users} \cup {nextId}

\* user_repo.create_user(User(...)): the INSERT violates a constraint exactly
\* when the e-mail (or the id) is stored already.
RepoCreateUser(i, answer) ==
    LET new_user == NewUser(nextId, Emails[i], hash_password("Abcd1234", "s1"))
        conn == Transaction(users, InsertUser(new_user), answer)
    IN
    /\ Usable(i)
    /\ answer # "ok" \/ ~ViolatesUserUnique(new_user)
    /\ answer = "IntegrityError" => ViolatesUserUnique(new_user)
    /\ answer = "OperationalError at commit" => ~ViolatesUserUnique(new_user)
    /\ RepoCalled("create_user", new_user.email, answer, conn)
    /\ users' = conn.stored
    /\ nextId' = nextId + 1
    /\ UNCHANGED tokens

\* user_repo.update_user_status(user_id, status)
RepoUpdateUserStatus(user_id, answer) ==
    LET conn == Transaction(users, UpdateUserStatus(user_id, ACTIVE), answer) IN
    /\ answer # "IntegrityError"
    /\ RepoCalled("update_user_status", "", answer, conn)
    /\ users' = conn.stored
    /\ UNCHANGED <<tokens, nextId>>

\* token_repo.create_activation_token(ActivationToken(...)): the constraints
\* of table activation_tokens are not part of the sources, so a second row
\* for a user may be stored or rejected.
RepoCreateActivationToken(user_id, n, answer) ==
    LET token == NewToken(user_id, generate_activation_code(n, CODE_LENGTH))
        conn == Transaction(tokens, InsertToken(token), answer)
    IN
    /\ answer = "IntegrityError" => \E t \in tokens : t.user_id = user_id
    /\ RepoCalled("create_activation_token", "", answer, conn)
    /\ tokens' = conn.stored
    /\ UNCHANGED <<users, nextId>>

\* token_repo.delete_activation_token(user_id)
RepoDeleteActivationToken(user_id, answer) ==
    LET conn == Transaction(tokens, DeleteActivationToken(user_id), answer) IN
    /\ answer # "IntegrityError"
    /\ RepoCalled("delete_activation_token", "", answer, conn)
    /\ tokens' = conn.stored
    /\ UNCHANGED <<users, nextId>>

NextRepo ==
    \/ \E i \in DOMAIN Emails, answer \in DbAnswers : RepoCreateUser(i, answer)
    \/ \E user_id \in UserIds, answer \in DbAnswers : RepoUpdateUserStatus(user_id, answer)
    \/ \E user_id \in UserIds, n \in Draws, answer \in DbAnswers :
          RepoCreateActivationToken(user_id, n, answer)
    \/ \E user_id \in UserIds, answer \in DbAnswers : RepoDeleteActivationToken(user_id, answer)

SpecRepo == Init /\ [][NextRepo]_vars

\* The calls of conn.rollback() a repository call made.
Rollbacks(r) == Cardinality({i \in DOMAIN r.calls : r.calls[i] = "rollback"})

RepoWrites ==
    {"create_user", "update_user_status", "create_activation_token", "delete_activation_token"}

\* The last call of a writing method: if the database answered with an error
\* the method rolled back once, a violated constraint was raised as a
\* ValueError whose text ends with " already exists" and a lost connection as
\* ConnectionError("Database is unavailable"); with no error it rolled back
\* nothing and raised nothing.
C28_RolledBackOnce ==
    LET r == req[Caller] IN
    r.op \in RepoWrites =>
        /\ r.secret = "ok" => Rollbacks(r) = 0 /\ r.outcome = Ok
        /\ r.secret # "ok" => Rollbacks(r) = 1 /\ r.calls[Len(r.calls)] = "rollback"
        /\ r.secret = "IntegrityError" =>
              /\ r.outcome.kind = "ValueError"
              /\ r.outcome.msg[Len(r.outcome.msg)] = " already exists"
        /\ r.secret \in {"OperationalError at execute", "OperationalError at commit"} =>
              /\ r.outcome.kind = "ConnectionError"
              /\ r.outcome.msg = <<"Database is unavailable">>

\* A call the database answered with an error leaves both tables as they were.
C28_Step ==
    (started' # started /\ req'[Caller].secret # "ok") =>
        /\ users' = users
        /\ tokens' = tokens

\* C28: when create_user, create_activation_token, update_user_status or
\* delete_activation_token hits a database error, the transaction is rolled
\* back exactly once and the stored rows are unchanged; a uniqueness violation
\* is raised as ValueError ("... already exists") and a connection failure as
\* ConnectionError ("Database is unavailable").
C28_ErrorsRollBack == []C28_RolledBackOnce /\ [][C28_Step]_vars

\* update_user_status lost the connection at commit, after its UPDATE had run:
\* it rolled back and the user is still PENDING, with a token.
C28_Witness ==
    LET r == req[Caller] IN
    /\ r.op = "update_user_status"
    /\ r.secret = "OperationalError at commit"
    /\ r.calls = <<"execute", "commit", "rollback">>
    /\ r.outcome = ConnectionError("update_user_status")
    /\ \E u \in users : u.status = PENDING /\ \E t \in tokens : t.user_id = u.id

\* create_user for a stored e-mail was rejected by the constraint and raised
\* ValueError after one rollback; one row has the e-mail.
C28_WitnessIntegrity ==
    LET r == req[Caller] IN
    /\ r.op = "create_user"
    /\ r.secret = "IntegrityError"
    /\ r.calls = <<"execute", "rollback">>
    /\ r.outcome = ValueErrorUserExists(r.email)
    /\ Cardinality(FindByEmail(r.email)) = 1

(***************************************************************************)
(* core/utils.py called directly, as tests/core/test_utils.py does.        *)
(***************************************************************************)
\* The longest code generated in SpecCode.
MaxLength == 3

\* The caller's record of a call of a utility: the function, its arguments
\* (for generate_activation_code: the length and the value drawn by
\* secrets.randbelow) and what it returned.
UtilCalled(function, arguments, returned) ==
    /\ started < MaxCalls
    /\ started' = started + 1
    /\ req' = [req EXCEPT ![Caller] =
                  [Idle EXCEPT !.op = function, !.pc = "done",
                               !.secret = arguments, !.code = returned]]

\* generate_activation_code(length), secrets.randbelow(10**length) returning n.
\* The function keeps no state, so one call per behaviour covers it.
GenerateActivationCode(length, n) ==
    /\ req[Caller].op = "none"
    /\ UtilCalled("generate_activation_code", <<length, n>>,
                  generate_activation_code(n, length))
    /\ UNCHANGED <<users, tokens, now, ticks, nextId, faults, outbox, registered, redeemed>>

NextCode ==
    \E length \in 1..MaxLength : \E n \in 0..(Pow10(length) - 1) :
        GenerateActivationCode(length, n)

SpecCode == Init /\ [][NextCode]_vars

\* The number a sequence of decimal digits denotes.
RECURSIVE DecimalValue(_)
DecimalValue(s) ==
    IF s = <<>> THEN 0 ELSE 10 * DecimalValue(SubSeq(s, 1, Len(s) - 1)) + s[Len(s)]

\* C29: for every length L >= 1 and every drawn value n in 0..10^L-1,
\* generate_activation_code(L) returns the decimal digits of n left-padded
\* with zeros to exactly L characters: the result has length L, contains only
\* digits and denotes n.
C29_PaddedDigits ==
    LET r == req[Caller] IN
    r.op = "generate_activation_code" =>
        /\ Len(r.code) = r.secret[1]
        /\ \A i \in DOMAIN r.code : r.code[i] \in 0..9
        /\ DecimalValue(r.code) = r.secret[2]

\* A value of one digit was drawn for a length of three and came back with
\* two zeros in front.
C29_Witness ==
    LET r == req[Caller] IN
    /\ r.op = "generate_activation_code"
    /\ r.secret = <<3, 7>>
    /\ r.code = <<0, 0, 7>>

(***************************************************************************)
(* The two expiry checks: is_token_expired (core/utils.py 24-26) and the   *)
(* check of activate_user (registration_service.py 84-86).  A datetime is  *)
(* an instant (seconds) that is naive or timezone-aware; Python subtracts  *)
(* two datetimes only if both are naive or both aware, and raises          *)
(* TypeError otherwise.                                                    *)
(***************************************************************************)
DateTime(instant, aware) == [instant |-> instant, aware |-> aware]

\* a - b for two datetimes
Minus(a, b) ==
    IF a.aware = b.aware THEN [raised |-> "none", total_seconds |-> a.instant - b.instant]
    ELSE [raised |-> "TypeError", total_seconds |-> 0]

\* time_diff.total_seconds() > ACTIVATION_TOKEN_TTL_SECONDS, or the TypeError
\* of the subtraction.
Verdict(time_diff) ==
    IF time_diff.raised # "none" THEN time_diff.raised
    ELSE IF time_diff.total_seconds > ACTIVATION_TOKEN_TTL_SECONDS THEN "True"
    ELSE "False"

\* utils.is_token_expired(token): datetime.now() is naive.
is_token_expired(token) == Verdict(Minus(DateTime(now, FALSE), token.created_at))

\* activate_user, lines 84-86: now is taken aware if the token's created_at is.
activate_user_expired(token) ==
    LET tnow == IF token.created_at.aware THEN DateTime(now, TRUE) ELSE DateTime(now, FALSE)
    IN Verdict(Minus(tnow, token.created_at))

\* The instants of SpecExpiry: around the TTL and beyond.
Instants ==
    {0, 1, ACTIVATION_TOKEN_TTL_SECONDS - 1, ACTIVATION_TOKEN_TTL_SECONDS,
     ACTIVATION_TOKEN_TTL_SECONDS + 1, 2 * ACTIVATION_TOKEN_TTL_SECONDS}

\* mock_datetime.now.return_value = ...
SetNow(t) ==
    /\ t > now
    /\ now' = t
    /\ UNCHANGED <<users, tokens, ticks, nextId, faults, started, req, outbox, registered, redeemed>>

\* is_token_expired(ActivationToken(user_id=..., created_at=..., code="1234"))
\* for a token created at or before now; the call is recorded with the
\* instant of the call.
IsTokenExpired(created, aware) ==
    LET token == [user_id |-> nextId, code |-> <<1, 2, 3, 4>>,
                  created_at |-> DateTime(created, aware)]
    IN
    /\ created <= now
    /\ started < MaxCalls
    /\ started' = started + 1
    /\ req' = [req EXCEPT ![Caller] =
                  [Idle EXCEPT !.op = "is_token_expired", !.pc = "done",
                               !.token = {token}, !.checked = now,
                               !.secret = is_token_expired(token),
                               !.code = activate_user_expired(token)]]
    /\ UNCHANGED <<users, tokens, now, ticks, nextId, faults, outbox, registered, redeemed>>

NextExpiry ==
    \/ \E t \in Instants : SetNow(t)
    \/ \E created \in {0, 1}, aware \in BOOLEAN : IsTokenExpired(created, aware)

SpecExpiry == Init /\ [][NextExpiry]_vars

\* C30: is_token_expired(token) is true if and only if now - token.created_at
\* is greater than ACTIVATION_TOKEN_TTL_SECONDS, and for every token age it
\* gives the same verdict as the expiry check inside activate_user.
C30_SameVerdict ==
    LET r == req[Caller] IN
    r.op = "is_token_expired" =>
        \A t \in r.token :
            /\ r.secret = "True" <=> r.checked - t.created_at.instant > ACTIVATION_TOKEN_TTL_SECONDS
            /\ r.secret = "False" <=> r.checked - t.created_at.instant <= ACTIVATION_TOKEN_TTL_SECONDS
            /\ r.secret = r.code

\* For a token whose created_at is naive the claim holds.
C30_SameVerdictNaive ==
    LET r == req[Caller] IN
    (r.op = "is_token_expired" /\ \A t \in r.token : ~t.created_at.aware) => C30_SameVerdict

\* Naive tokens were judged at the ages TTL - 1, TTL and TTL + 1.
C30_NaiveBoundary ==
    LET r == req[Caller] IN
    /\ r.op = "is_token_expired"
    /\ \E t \in r.token :
          /\ ~t.created_at.aware
          /\ r.checked - t.created_at.instant = ACTIVATION_TOKEN_TTL_SECONDS
          /\ r.secret = "False"
          /\ r.code = "False"

(***************************************************************************)
(* hash_password and verify_password called directly, as                   *)
(* test_password_hashing_and_verification does.                            *)
(***************************************************************************)
\* Passwords of 1, 8, 72 and 73 characters that differ in the last one.
HashPasswords ==
    {Repeat("a", n) \o <<c>> : n \in {0, 7, BCRYPT_MAX_BYTES - 1, BCRYPT_MAX_BYTES},
                               c \in {"x", "y", "z"}}

\* hashed = hash_password(password); verify_password(candidate, hashed)
HashAndVerify(password, candidate, salt) ==
    LET hashed == hash_password(password, salt) IN
    /\ started < MaxCalls
    /\ started' = started + 1
    /\ req' = [req EXCEPT ![Caller] =
                  [Idle EXCEPT !.op = "verify_password", !.pc = "done",
                               !.secret = <<password, candidate>>,
                               !.token = {hashed},
                               !.code = IF verify_password(candidate, hashed)
                                        THEN "True" ELSE "False"]]
    /\ UNCHANGED <<users, tokens, now, ticks, nextId, faults, outbox, registered, redeemed>>

NextHash ==
    \E password \in HashPasswords, candidate \in HashPasswords, salt \in Salts :
        HashAndVerify(password, candidate, salt)

SpecHash == Init /\ [][NextHash]_vars

\* C31: for all passwords p and q, verify_password(p, hash_password(p)) is
\* true, and verify_password(q, hash_password(p)) is false whenever q differs
\* from p.
C31_VerifiesOnlyItself ==
    LET r == req[Caller] IN
    r.op = "verify_password" => (r.code = "True" <=> r.secret[1] = r.secret[2])

\* For passwords of at most 72 characters the claim holds.
C31_VerifiesOnlyItselfShort ==
    LET r == req[Caller] IN
    ( /\ r.op = "verify_password"
      /\ Len(r.secret[1]) <= BCRYPT_MAX_BYTES
      /\ Len(r.secret[2]) <= BCRYPT_MAX_BYTES ) => C31_VerifiesOnlyItself

\* Two passwords of 72 characters that differ in the last one: the second
\* was refused.
C31_ShortRefused ==
    LET r == req[Caller] IN
    /\ r.op = "verify_password"
    /\ Len(r.secret[1]) = BCRYPT_MAX_BYTES
    /\ Len(r.secret[2]) = BCRYPT_MAX_BYTES
    /\ r.secret[1] # r.secret[2]
    /\ r.code = "False"

\* The fields of a user that an activation must keep.
Identity(u) == <<u.id, u.email, u.password_hash, u.created_at>>

\* Every stored row keeps id, e-mail, password hash and created_at; status and
\* updated_at of a row change only in the update_user_status step of an
\* activate call, for the user of that call, to ACTIVE and to the time of the
\* step; and that step turns the user object of the call into the same user
\* with status ACTIVE and updated_at set.
C32_Step ==
    /\ \A u \in users : \E v \in users' : Identity(v) = Identity(u)
    /\ \A u \in users : u \notin users' =>
          \E p \in Procs :
              /\ req[p].op = "activate"
              /\ req[p].pc = "a_update"
              /\ req'[p].pc = "a_delete"
              /\ \E mine \in req[p].user : mine.id = u.id
              /\ \E v \in users' :
                    /\ Identity(v) = Identity(u)
                    /\ v.status = ACTIVE
                    /\ v.updated_at = now
    /\ \A p \in Procs :
          (NoReply /\ req[p].op = "activate" /\ req[p].user # {} /\ req'[p].user # req[p].user) =>
              /\ req[p].pc = "a_update"
              /\ \A u \in req[p].user : \E v \in req'[p].user :
                    /\ req'[p].user = {v}
                    /\ Identity(v) = Identity(u)
                    /\ v.status = ACTIVE
                    /\ v.updated_at = now

\* The user an activate call returns is the stored row as to id, e-mail,
\* password hash and created_at, and both are ACTIVE with updated_at set.
C32_ReturnedIsStored ==
    \A p \in Procs :
        LET r == req[p] IN
        (Done(p) /\ r.op = "activate" /\ r.outcome = Ok) =>
            \A u \in r.user : \E s \in users :
                /\ Identity(s) = Identity(u)
                /\ u.status = ACTIVE /\ u.updated_at # NoTime
                /\ s.status = ACTIVE /\ s.updated_at # NoTime

\* C32: a successful activation changes only the user's status (to ACTIVE)
\* and updated_at (set at the status change); id, email, password_hash and
\* created_at are the same before and after, both in the returned user and in
\* the stored row.
C32_OnlyStatusChanges == []C32_ReturnedIsStored /\ [][C32_Step]_vars

\* A user created at time 0 was activated after the clock had advanced: the
\* returned user and the stored row still have created_at 0 and an updated_at
\* later than that.
C32_Witness ==
    \E p \in Procs :
        /\ Done(p)
        /\ req[p].op = "activate"
        /\ req[p].outcome = Ok
        /\ \E u \in req[p].user : \E s \in users :
              /\ Identity(s) = Identity(u)
              /\ u.created_at < u.updated_at
              /\ s.created_at < s.updated_at

\* C34: every register call is all-or-nothing: a call that failed has left no
\* user row and no token of its own behind, and a call that succeeded has
\* added one user row and one token owned by that user (still there unless
\* another request for the e-mail ran meanwhile); in particular no user
\* without a token is left when create_activation_token fails after
\* create_user succeeded.
C34_RegisterAllOrNothing ==
    \A p \in Procs :
        LET r == req[p] IN
        (Done(p) /\ r.op = "register") =>
            IF r.outcome = Ok
            THEN /\ Cardinality(r.user) = 1
                 /\ \A u \in r.user :
                       /\ \E s \in users : s.id = u.id
                       /\ r.solo => Cardinality({t \in tokens : t.user_id = u.id}) = 1
            ELSE \A u \in r.user :
                     /\ ~\E s \in users : s.id = u.id
                     /\ ~\E t \in tokens : t.user_id = u.id

\* C35: an activate call that ends in an error (InvalidTokenError,
\* UserAlreadyActive or a store failure) leaves the stored status of its user
\* as it was when the call started (no other request for the e-mail having
\* run meanwhile); the status becomes ACTIVE only in calls that return the
\* user.
C35_FailedActivateKeepsStatus ==
    \A p \in Procs :
        LET r == req[p] IN
        (Done(p) /\ r.op = "activate" /\ r.outcome # Ok /\ r.solo) =>
            ((\E u \in users : u.email = r.email /\ u.status = ACTIVE) <=> r.pre.active)

\* Apart from a failure of delete_activation_token, the claim holds.
C35_ExceptFailedDelete ==
    \A p \in Procs :
        LET r == req[p] IN
        (Done(p) /\ r.op = "activate" /\ r.outcome # Ok /\ r.solo
            /\ r.outcome # ConnectionError("delete_activation_token")) =>
            ((\E u \in users : u.email = r.email /\ u.status = ACTIVE) <=> r.pre.active)

(***************************************************************************)
(* The connection pool (infrastructure/db/database.py) as the repository   *)
(* methods and the health check use it: getconn when the operation starts, *)
(* putconn where the code returns the connection.  One thread runs the     *)
(* operations one after the other; its record keeps every call made on the *)
(* pool so far.                                                            *)
(***************************************************************************)
RepoMethods ==
    {"create_user", "find_by_email", "update_user_status",
     "create_activation_token", "find_by_user_id_and_code", "delete_activation_token"}

\* conn = Database.get_connection(), the first statement of the operation.
PoolBegin(operation) ==
    /\ req[Caller].pc # "p_run"
    /\ started < MaxCalls
    /\ started' = started + 1
    /\ req' = [req EXCEPT ![Caller] =
                  [Idle EXCEPT !.op = operation, !.pc = "p_run",
                               !.calls = Append(req[Caller].calls, "getconn")]]
    /\ UNCHANGED <<users, tokens, now, ticks, nextId, faults, outbox, registered, redeemed>>

\* The rest of a repository method: try ... except ... finally:
\* Database.return_connection(conn), whether the statement failed or not.
RepoEnd(failed) ==
    LET r == req[Caller] IN
    /\ r.pc = "p_run"
    /\ r.op \in RepoMethods
    /\ req' = [req EXCEPT ![Caller] =
                  [r EXCEPT !.pc = "done",
                            !.outcome = IF failed THEN ConnectionError(r.op) ELSE Ok,
                            !.calls = Append(r.calls, "putconn")]]
    /\ UNCHANGED <<users, tokens, now, ticks, nextId, faults, started, outbox, registered, redeemed>>

\* The rest of health_check: cursor, execute("SELECT 1"), then
\* Database.return_connection(conn) inside the try; a failure goes to
\* "except Exception", which raises HTTPException(503).
HealthEnd(failed) ==
    LET r == req[Caller] IN
    /\ r.pc = "p_run"
    /\ r.op = "health_check"
    /\ req' = [req EXCEPT ![Caller] =
                  IF failed
                  THEN [r EXCEPT !.pc = "done",
                                 !.outcome = Exc("HTTPException", <<"Database connection failed">>,
                                                 "health_check"),
                                 !.response = Response(HTTP_503_SERVICE_UNAVAILABLE,
                                                       <<"Database connection failed">>, {})]
                  ELSE [r EXCEPT !.pc = "done", !.outcome = Ok,
                                 !.response = Response(HTTP_200_OK, <<>>, {}),
                                 !.calls = Append(r.calls, "putconn")]]
    /\ UNCHANGED <<users, tokens, now, ticks, nextId, faults, started, outbox, registered, redeemed>>

NextPool ==
    \/ \E operation \in RepoMethods \cup {"health_check"} : PoolBegin(operation)
    \/ \E failed \in BOOLEAN : RepoEnd(failed)
    \/ \E failed \in BOOLEAN : HealthEnd(failed)

SpecPool == Init /\ [][NextPool]_vars

\* The connections taken from the pool and not returned.
CheckedOut ==
    LET log == req[Caller].calls IN
    Cardinality({i \in DOMAIN log : log[i] = "getconn"})
        - Cardinality({i \in DOMAIN log : log[i] = "putconn"})

\* C36: every connection taken from the pool by a repository operation or by
\* the health check is returned exactly once on every path, so no connection
\* is checked out whenever no operation is in progress (and one while an
\* operation is).
C36_ConnectionsReturned ==
    CheckedOut = (IF req[Caller].pc = "p_run" THEN 1 ELSE 0)

\* A repository method failed and the connection is back in the pool.
C36_RepoFailureReturned ==
    /\ req[Caller].op \in RepoMethods
    /\ req[Caller].outcome.kind = "ConnectionError"
    /\ CheckedOut = 0

\* The activate call of r ended because no token matched (user_id, code).
NoTokenMatched(r) ==
    r.op = "activate" /\ r.pc = "done" /\ r.user # {} /\ r.outcome = InvalidTokenNoToken

\* An activate call that ended because no token matched has made the two
\* lookups and nothing else, and, no other request for the e-mail having run
\* meanwhile, the stored row is the PENDING row it read.
C37_OnlyLookups ==
    \A p \in Procs :
        LET r == req[p] IN
        NoTokenMatched(r) =>
            /\ r.calls = <<"find_by_email", "find_by_user_id_and_code">>
            /\ r.token = {}
            /\ r.solo => /\ StoredUser(r) = r.user
                         /\ \A u \in r.user : u.status = PENDING

\* The steps of an activate call up to and including the token lookup change
\* no user row and no token.
C37_Step ==
    \A p \in Procs :
        ( /\ NoReply
          /\ req[p].op = "activate"
          /\ req[p].pc \in {"a_find", "a_token"}
          /\ req'[p].pc # req[p].pc ) =>
            /\ users' = users
            /\ tokens' = tokens

\* C37: an activate call that fails because no token matches (user_id, code)
\* leaves the user's status and the user's existing token unchanged: wrong
\* guesses never consume or invalidate the token (so that a later call with
\* the correct code within the TTL succeeds as C2 states).
C37_WrongGuessChangesNothing == []C37_OnlyLookups /\ [][C37_Step]_vars

\* A wrong code was presented for a PENDING user whose token is stored and
\* not expired: the call has ended, the token is still there.
C37_Witness ==
    \E p \in Procs :
        /\ NoTokenMatched(req[p])
        /\ req[p].solo
        /\ \E u \in req[p].user :
              /\ u.status = PENDING
              /\ u \in users
              /\ \E t \in tokens : /\ t.user_id = u.id
                                   /\ t.code # req[p].secret
                                   /\ ~TokenExpired(t, now)

\* A PENDING user with no token, whom no call in progress can still give one
\* or activate: the register call that created the user is past
\* create_activation_token, and no activate call has passed the expiry check
\* for the user (such a call fetched its token before the token was deleted).
Stranded(u) ==
    /\ u \in users
    /\ u.status = PENDING
    /\ TokensOf(u.id) = {}
    /\ \A p \in Procs :
          LET r == req[p] IN
          (r.user # {} /\ \A v \in r.user : v.id = u.id) =>
              /\ r.op = "register" => r.pc \in {"r_notify", "done"}
              /\ r.op = "activate" => r.pc \in {"a_token", "a_expired", "done"}

\* A stranded user stays stranded, with the same row; a register call for the
\* e-mail that reaches the lookup ends there with UserAlreadyExists, and an
\* activate call for it finds the user and then no token (InvalidTokenError),
\* unless the store fails.
C38_Step ==
    \A u \in users :
        Stranded(u) =>
            /\ Stranded(u)'
            /\ \A p \in Procs :
                  LET r == req[p]
                      s == req'[p]
                  IN
                  (NoReply /\ r.email = u.email /\ s.pc # r.pc) =>
                      /\ r.pc = "r_find" =>
                            /\ s.pc = "done"
                            /\ s.outcome \in {UserAlreadyExists, ConnectionError("find_by_email")}
                      /\ r.pc = "a_find" =>
                            \/ s.pc = "a_token" /\ s.user = {u}
                            \/ s.pc = "done" /\ s.outcome = ConnectionError("find_by_email")
                      /\ r.pc = "a_token" =>
                            /\ s.pc = "done"
                            /\ s.outcome \in {InvalidTokenNoToken,
                                              ConnectionError("find_by_user_id_and_code")}

====
